---- MODULE Spec2Model ----
(***************************************************************************)
(* Model of fetch_news.py: one run loads the module (capturing             *)
(* NEWS_API_KEY), calls fetch_health_news(), and writes the returned       *)
(* bundle to data/daily_news.json.  Several runs may share the working     *)
(* directory, so the directory and the file are shared state and every     *)
(* other variable is per run.                                              *)
(***************************************************************************)
EXTENDS Integers, Sequences, FiniteSets, TLC

VARIABLES env, API_KEY, pc, sent, response, news_data, error, stdout,
          pos, pending, dir, file

vars == <<env, API_KEY, pc, sent, response, news_data, error, stdout,
          pos, pending, dir, file>>

\* ------------------------------------------------------------------ bounds

\* Longest upstream "articles" array (and string) the model enumerates.
MaxArticles == 6
\* datetime.now() returns one of the instants 0..MaxClock.
MaxClock == 1

\* ------------------------------------------------------- program constants

\* fetch_news.py:27, the slice bound of [:5].
TopN == 5

Runs == {1, 2}

Min(a, b) == IF a < b THEN a ELSE b

\* os.environ.get('NEWS_API_KEY'): None when unset, else the string.
KeyUnset == [set |-> FALSE, val |-> ""]
KeyEmpty == [set |-> TRUE, val |-> ""]
KeyGiven == [set |-> TRUE, val |-> "k1"]
EnvValues == {KeyUnset, KeyEmpty, KeyGiven}

\* Faulty variant of the credential check: "if API_KEY is None".
TruthyNotNone(k) == k.set

\* Python truthiness of an Optional[str]: None and "" are falsy.
Truthy(k) == k.set /\ k.val # ""

\* Line 10.
OUTPUT_FILE == "data/daily_news.json"

\* fetch_news.py:17, the f-string URL with the captured key embedded.
Url(k) ==
  [host |-> "newsapi.org", path |-> "/v2/top-headlines",
   category |-> "health", language |-> "ar", apiKey |-> k.val]

\* ------------------------------------------------------------ the literals

\* Line 26 (Arabic): "Tip of the day: walking 30 minutes a day lowers the
\* risk of heart disease."
LiveTip == "tip-of-the-day: walking 30 minutes daily lowers heart disease risk"
\* Line 40 (Arabic): "Tip of the day: drinking water regularly helps
\* improve focus and energy."
FallbackTip == "tip-of-the-day: drinking water regularly improves focus and energy"

\* Lines 42-47 and 48-53; the titles and descriptions are Arabic in the source.
FallbackArticle1 ==
  [title |-> "benefits of intermittent fasting for mental health",
   description |-> "new studies confirm the role of fasting in improving cognitive functions",
   url |-> "#",
   urlToImage |-> "https://via.placeholder.com/300?text=Health"]
FallbackArticle2 ==
  [title |-> "importance of good sleep for immunity",
   description |-> "sleeping 7-8 hours greatly strengthens the immune system",
   url |-> "#",
   urlToImage |-> "https://via.placeholder.com/300?text=Sleep"]

\* ------------------------------------------------------------- JSON values

\* A JSON value found under "articles" (or its absence).  items holds the
\* elements of an array, chars the characters of a string.
JVal(t, items, chars) == [t |-> t, items |-> items, chars |-> chars]
Absent == JVal("absent", <<>>, <<>>)
JList(s) == JVal("array", s, <<>>)
JStr(s) == JVal("string", <<>>, s)

\* The i-th upstream article, an opaque object passed through unchanged.
UpstreamArticle(i) ==
  [title |-> "a" \o ToString(i), description |-> "d" \o ToString(i),
   url |-> "u" \o ToString(i), urlToImage |-> "img" \o ToString(i)]

\* The upstream array a1..an.
UpstreamList(n) == JList([i \in 1..n |-> UpstreamArticle(i)])
UpstreamString(n) == JStr([i \in 1..n |-> i])

\* Every value the "articles" member of the response object may hold.
ArticleValues ==
  {Absent, JVal("null", <<>>, <<>>), JVal("number", <<>>, <<>>),
   JVal("object", <<>>, <<>>)}
    \cup {UpstreamList(n) : n \in 0..MaxArticles}
    \cup {UpstreamString(n) : n \in 0..MaxArticles}

\* The "status" member: a string, JSON null, or no member at all.
NoStatus == "<absent>"
StatusValues == {NoStatus, "<null>", "ok", "OK", "error"}

\* The value response.json() returns: an object with its two members of
\* interest, or a JSON value that is not an object.
JObject(s, a) == [t |-> "object", status |-> s, articles |-> a]
JOther(t) == [t |-> t, status |-> NoStatus, articles |-> Absent]
JsonTop ==
  {JObject(s, a) : s \in StatusValues, a \in ArticleValues}
    \cup {JOther(t) : t \in {"array", "string", "number", "null"}}

\* ---------------------------------------------------------- the exceptions

NoExc == "none"
\* Python's class hierarchy for the exceptions that occur here.
Parent(e) ==
  CASE e = "ConnectionError" -> "RequestException"
    [] e = "Timeout" -> "RequestException"
    [] e = "RequestException" -> "OSError"
    [] e = "PermissionError" -> "OSError"
    [] e = "OSError" -> "Exception"
    [] e = "JSONDecodeError" -> "ValueError"
    [] e = "ValueError" -> "Exception"
    [] e = "AttributeError" -> "Exception"
    [] e = "TypeError" -> "Exception"
    [] e = "Exception" -> "BaseException"
    [] OTHER -> "object"

RECURSIVE IsInstance(_, _)
IsInstance(e, cls) ==
  IF e = cls THEN TRUE
  ELSE IF e \in {"BaseException", "object", NoExc} THEN FALSE
  ELSE IsInstance(Parent(e), cls)

\* What the network and the body can do to one GET.
Outcome(kind, exc, data) == [kind |-> kind, exc |-> exc, data |-> data]
Outcomes ==
  {Outcome("get_raises", e, JOther("null")) : e \in {"ConnectionError", "Timeout"}}
    \cup {Outcome("json_raises", "JSONDecodeError", JOther("null"))}
    \cup {Outcome("parsed", NoExc, d) : d \in JsonTop}
NoResponse == Outcome("none", NoExc, JOther("null"))

\* ----------------------------------------------------------------- bundles

Timestamps == 0..MaxClock

Bundle(t, tip, articles) ==
  [updated_at |-> t, tip |-> tip, articles |-> articles]
NoBundle == Bundle(-1, "", Absent)

\* Faulty variant of the fallback literal: the second article is missing.
FallbackOneArticle(t) ==
  Bundle(t, FallbackTip, JList(<<FallbackArticle1>>))

\* generate_fallback_data(), with datetime.now() = t.
generate_fallback_data(t) ==
  Bundle(t, FallbackTip, JList(<<FallbackArticle1, FallbackArticle2>>))

\* Faulty variant of the slice: v[-n:], the last n elements.
SliceLast(v, n) ==
  LET from(len) == IF len > n THEN len - n + 1 ELSE 1 IN
    IF v.t = "array" THEN JVal("array", SubSeq(v.items, from(Len(v.items)), Len(v.items)), <<>>)
    ELSE JVal("string", <<>>, SubSeq(v.chars, from(Len(v.chars)), Len(v.chars)))

\* Faulty variant of the slice: no truncation at all.
SliceNoLimit(v, n) == v

\* v[:n] for the values that support slicing: lists and strings.
Sliceable(v) == v.t \in {"array", "string"}
Slice(v, n) ==
  IF v.t = "array" THEN JList(SubSeq(v.items, 1, Min(n, Len(v.items))))
  ELSE JStr(SubSeq(v.chars, 1, Min(n, Len(v.chars))))

\* Faulty variant of the lookup: "data.get('articles') or []".
GetArticlesOrEmpty(data) ==
  IF data.articles.t \in {"absent", "null"} THEN JList(<<>>) ELSE data.articles

\* data.get('articles', []).
GetArticles(data) ==
  IF data.articles.t = "absent" THEN JList(<<>>) ELSE data.articles

\* The result of a block of code: a returned bundle or a raised exception,
\* with the lines printed on the way.
Return(b, log) == [kind |-> "return", bundle |-> b, exc |-> NoExc, log |-> log]
Raise(e) == [kind |-> "raise", bundle |-> NoBundle, exc |-> e, log |-> <<>>]

\* Faulty variant of the status test: data.get('status') != 'error'.
StatusNotError(data) == data.status # "error"

\* Line 23: data.get('status') == 'ok'.
StatusOk(data) == data.status = "ok"

\* Faulty variant of the live bundle: the tip of the fallback literal.
LiveBundleWaterTip(t, articles) == Bundle(t, FallbackTip, articles)

\* Lines 24-28, the bundle of the live path.
LiveBundle(t, articles) == Bundle(t, LiveTip, articles)

\* Lines 20-31, the body of the try statement.  data.get raises
\* AttributeError on a value that is no dict, the slice raises TypeError.
TryBody(o, t) ==
  IF o.kind = "get_raises" THEN Raise(o.exc)
  ELSE IF o.kind = "json_raises" THEN Raise(o.exc)
  ELSE IF o.data.t # "object" THEN Raise("AttributeError")
  ELSE IF StatusOk(o.data)
    THEN IF Sliceable(GetArticles(o.data))
           THEN Return(LiveBundle(t, Slice(GetArticles(o.data), TopN)), <<>>)
           ELSE Raise("TypeError")
    ELSE Return(generate_fallback_data(t), <<"API Error">>)

\* Faulty variant of the handler: "except requests.RequestException".
CaughtRequestOnly(e) == IsInstance(e, "RequestException")

\* Line 33, "except Exception".
Caught(e) == IsInstance(e, "Exception")

\* Lines 19-35: the try statement with its handler.
TryExcept(o, t) ==
  LET r == TryBody(o, t) IN
    IF r.kind = "raise" /\ Caught(r.exc)
      THEN Return(generate_fallback_data(t), <<"Error fetching news">>)
      ELSE r

\* --------------------------------------------------------------- the file

\* json.dump's text, cut into units: the opening with the timestamp, the
\* tip, one unit per element of "articles", and the closing.
NoArticle == [title |-> "", description |-> "", url |-> "", urlToImage |-> ""]
Tok(k, s, n, a) == [k |-> k, s |-> s, n |-> n, a |-> a]
NUL == Tok("\\0", "", 0, NoArticle)

ArticleToks(v) ==
  IF v.t = "array"
    THEN [i \in 1..Len(v.items) |-> Tok("article", "", i, v.items[i])]
    ELSE [i \in 1..Len(v.chars) |-> Tok("char", "", v.chars[i], NoArticle)]

\* json.dump(news_data, f, ensure_ascii=False, indent=2), line 64.
Serialize(b) ==
  <<Tok("{updated_at", "", b.updated_at, NoArticle), Tok("tip", b.tip, 0, NoArticle),
    Tok("articles" \o b.articles.t, "", 0, NoArticle)>>
    \o ArticleToks(b.articles)
    \o <<Tok("}", "", 0, NoArticle)>>

\* write(2) of chunk at offset p: bytes past the end extend the file, a gap
\* between the end and p reads as zero bytes.
WriteAt(content, p, chunk) ==
  LET n == IF Len(content) > p + Len(chunk) THEN Len(content) ELSE p + Len(chunk) IN
    [i \in 1..n |->
       IF i > p /\ i <= p + Len(chunk) THEN chunk[i - p]
       ELSE IF i <= Len(content) THEN content[i]
       ELSE NUL]

\* Faulty variant of the open mode: O_CREAT without O_TRUNC.
NotTruncated(f) == [exists |-> TRUE, content |-> f.content]

\* open(OUTPUT_FILE, 'w'): O_CREAT | O_TRUNC.
Truncated(f) == [exists |-> TRUE, content |-> <<>>]

NoFile == [exists |-> FALSE, content |-> <<>>]
FileOf(content) == [exists |-> TRUE, content |-> content]

\* What an earlier run may have left in data/daily_news.json.
StaleFiles ==
  {FileOf(Serialize(generate_fallback_data(0))),
   FileOf(Serialize(LiveBundle(0, Slice(UpstreamList(MaxArticles), TopN))))}

MsgNoKey == "No API Key found. Generating static fallback data."
MsgDone == "Successfully updated " \o OUTPUT_FILE

\* ------------------------------------------------------------------- state

\* The offset of a run that has not opened the file.
NotOpened == -1

InitRun(launched) ==
  /\ env \in [Runs -> EnvValues]
  /\ \A p \in Runs \ launched : env[p] = KeyUnset
  /\ API_KEY = [p \in Runs |-> KeyUnset]
  /\ pc = [p \in Runs |-> IF p \in launched THEN "start" ELSE "off"]
  /\ sent = [p \in Runs |-> <<>>]
  /\ response = [p \in Runs |-> NoResponse]
  /\ news_data = [p \in Runs |-> NoBundle]
  /\ error = [p \in Runs |-> NoExc]
  /\ stdout = [p \in Runs |-> <<>>]
  /\ pos = [p \in Runs |-> NotOpened]
  /\ pending = [p \in Runs |-> <<>>]
  /\ dir \in BOOLEAN
  /\ file \in (IF dir THEN {NoFile} \cup StaleFiles ELSE {NoFile})

\* One run of the program.
Init == InitRun({1})
\* Two runs started in the same working directory.
InitRace == InitRun(Runs)

\* ----------------------------------------------------------------- actions

\* Line 7: the module captures the variable as it is loaded.
Load(p) ==
  /\ pc[p] = "start"
  /\ API_KEY' = [API_KEY EXCEPT ![p] = env[p]]
  /\ pc' = [pc EXCEPT ![p] = "loaded"]
  /\ UNCHANGED <<env, sent, response, news_data, error, stdout, pos, pending, dir, file>>

\* The process environment changes after the module was loaded and before
\* fetch_health_news() is called.
EnvChange(p) ==
  /\ pc[p] = "loaded"
  /\ \E k \in EnvValues \ {env[p]} : env' = [env EXCEPT ![p] = k]
  /\ UNCHANGED <<API_KEY, pc, sent, response, news_data, error, stdout, pos, pending, dir, file>>

\* Lines 13-15: no usable key.
FetchNoKey(p, times) ==
  /\ pc[p] = "loaded"
  /\ ~Truthy(API_KEY[p])
  /\ \E t \in times :
       news_data' = [news_data EXCEPT ![p] = generate_fallback_data(t)]
  /\ stdout' = [stdout EXCEPT ![p] = Append(@, MsgNoKey)]
  /\ pc' = [pc EXCEPT ![p] = "fetched"]
  /\ UNCHANGED <<env, API_KEY, sent, response, error, pos, pending, dir, file>>

\* Lines 17-20: the GET is issued and the run blocks on it.
SendRequest(p) ==
  /\ pc[p] = "loaded"
  /\ Truthy(API_KEY[p])
  /\ sent' = [sent EXCEPT ![p] = Append(@, Url(API_KEY[p]))]
  /\ pc' = [pc EXCEPT ![p] = "awaiting"]
  /\ UNCHANGED <<env, API_KEY, response, news_data, error, stdout, pos, pending, dir, file>>

\* Lines 20-35: the GET ends (with a response or an exception) and
\* fetch_health_news() runs to its end.  outs and times are the outcomes of
\* the GET and the readings of the clock that are enumerated.
HandleResponse(p, outs, times) ==
  /\ pc[p] = "awaiting"
  /\ \E o \in outs, t \in times :
       LET r == TryExcept(o, t) IN
         /\ response' = [response EXCEPT ![p] = o]
         /\ stdout' = [stdout EXCEPT ![p] = @ \o r.log]
         /\ news_data' = [news_data EXCEPT ![p] = r.bundle]
         /\ error' = [error EXCEPT ![p] = r.exc]
         /\ pc' = [pc EXCEPT ![p] = IF r.kind = "return" THEN "fetched" ELSE "crashed"]
  /\ UNCHANGED <<env, API_KEY, sent, pos, pending, dir, file>>

\* Line 61: os.makedirs(os.path.dirname(OUTPUT_FILE), exist_ok=True).  The
\* frame of fetch_health_news() is gone by now.
Makedirs(p) ==
  /\ pc[p] = "fetched"
  /\ response' = [response EXCEPT ![p] = NoResponse]
  /\ \/ /\ dir' = TRUE
        /\ pc' = [pc EXCEPT ![p] = "open"]
        /\ UNCHANGED error
     \/ /\ ~dir
        /\ pc' = [pc EXCEPT ![p] = "crashed"]
        /\ error' = [error EXCEPT ![p] = "PermissionError"]
        /\ UNCHANGED dir
  /\ UNCHANGED <<env, API_KEY, sent, news_data, stdout, pos, pending, file>>

\* Lines 63-64: open(OUTPUT_FILE, 'w') and json.dump() into the buffer of f.
Open(p) ==
  /\ pc[p] = "open"
  /\ \/ /\ file' = Truncated(file)
        /\ pos' = [pos EXCEPT ![p] = 0]
        /\ pending' = [pending EXCEPT ![p] = Serialize(news_data[p])]
        /\ pc' = [pc EXCEPT ![p] = "dump"]
        /\ UNCHANGED error
     \/ /\ pc' = [pc EXCEPT ![p] = "crashed"]
        /\ error' = [error EXCEPT ![p] = "PermissionError"]
        /\ UNCHANGED <<file, pos, pending>>
  /\ UNCHANGED <<env, API_KEY, sent, response, news_data, stdout, dir>>

\* The buffer of f fills while json.dump() runs and its first k units go to
\* the file, at the offset of this run's descriptor; or that write fails
\* and the error leaves the with statement.
Flush(p) ==
  /\ pc[p] = "dump"
  /\ \/ /\ \E k \in 1..Len(pending[p]) :
             /\ file' = FileOf(WriteAt(file.content, pos[p], SubSeq(pending[p], 1, k)))
             /\ pos' = [pos EXCEPT ![p] = @ + k]
             /\ pending' = [pending EXCEPT ![p] = SubSeq(@, k + 1, Len(@))]
        /\ UNCHANGED <<pc, error>>
     \/ /\ pc' = [pc EXCEPT ![p] = "crashed"]
        /\ error' = [error EXCEPT ![p] = "OSError"]
        /\ UNCHANGED <<file, pos, pending>>
  /\ UNCHANGED <<env, API_KEY, sent, response, news_data, stdout, dir>>

\* Faulty variant of the end of the with statement: a failed write is
\* swallowed and the run goes on to line 66.
CloseSwallow(p) ==
  /\ pc[p] = "dump"
  /\ \/ /\ file' = FileOf(WriteAt(file.content, pos[p], pending[p]))
        /\ pos' = [pos EXCEPT ![p] = @ + Len(pending[p])]
        /\ pending' = [pending EXCEPT ![p] = <<>>]
        /\ pc' = [pc EXCEPT ![p] = "print"]
        /\ UNCHANGED error
     \/ /\ pc' = [pc EXCEPT ![p] = "print"]
        /\ error' = [error EXCEPT ![p] = "OSError"]
        /\ UNCHANGED <<file, pos, pending>>
  /\ UNCHANGED <<env, API_KEY, sent, response, news_data, stdout, dir>>

\* The end of the with statement: f.close() writes what is still buffered.
Close(p) ==
  /\ pc[p] = "dump"
  /\ \/ /\ file' = FileOf(WriteAt(file.content, pos[p], pending[p]))
        /\ pos' = [pos EXCEPT ![p] = @ + Len(pending[p])]
        /\ pending' = [pending EXCEPT ![p] = <<>>]
        /\ pc' = [pc EXCEPT ![p] = "print"]
        /\ UNCHANGED error
     \/ /\ pc' = [pc EXCEPT ![p] = "crashed"]
        /\ error' = [error EXCEPT ![p] = "OSError"]
        /\ UNCHANGED <<file, pos, pending>>
  /\ UNCHANGED <<env, API_KEY, sent, response, news_data, stdout, dir>>

\* Line 66.
PrintDone(p) ==
  /\ pc[p] = "print"
  /\ stdout' = [stdout EXCEPT ![p] = Append(@, MsgDone)]
  /\ pc' = [pc EXCEPT ![p] = "done"]
  /\ UNCHANGED <<env, API_KEY, sent, response, news_data, error, pos, pending, dir, file>>

Next ==
  \E p \in Runs :
    \/ Load(p)
    \/ EnvChange(p)
    \/ FetchNoKey(p, Timestamps)
    \/ SendRequest(p)
    \/ HandleResponse(p, Outcomes, Timestamps)
    \/ Makedirs(p)
    \/ Open(p)
    \/ Flush(p)
    \/ Close(p)
    \/ PrintDone(p)

\* Two concurrent runs: the same steps, with the responses narrowed to one
\* failure, one long and one empty array.
RaceOutcomes ==
  {Outcome("get_raises", "ConnectionError", JOther("null")),
   Outcome("parsed", NoExc, JObject("ok", UpstreamList(MaxArticles))),
   Outcome("parsed", NoExc, JObject("ok", UpstreamList(0)))}

NextRace ==
  \E p \in Runs :
    \/ Load(p)
    \/ FetchNoKey(p, Timestamps)
    \/ SendRequest(p)
    \/ HandleResponse(p, RaceOutcomes, Timestamps)
    \/ Makedirs(p)
    \/ Open(p)
    \/ Flush(p)
    \/ Close(p)
    \/ PrintDone(p)

Spec == Init /\ [][Next]_vars
SpecRace == InitRace /\ [][NextRace]_vars

\* ------------------------------------------------------------ properties

FallbackArticles == JList(<<FallbackArticle1, FallbackArticle2>>)
\* b is the literal of lines 38-55, whatever its timestamp.
IsFallbackLiteral(b) ==
  /\ b.updated_at \in Timestamps
  /\ b.tip = FallbackTip
  /\ b.articles = FallbackArticles
FallbackText(t) ==
  <<Tok("{updated_at", "", t, NoArticle), Tok("tip", FallbackTip, 0, NoArticle),
    Tok("articlesarray", "", 0, NoArticle),
    Tok("article", "", 1, FallbackArticle1), Tok("article", "", 2, FallbackArticle2),
    Tok("}", "", 0, NoArticle)>>

\* The module is loaded and fetch_health_news() has taken its decision.
Decided(p) == pc[p] \notin {"off", "start", "loaded"}
\* fetch_health_news() has returned a bundle.
Returned(p) == news_data[p] # NoBundle
\* The file has been written and closed by p.
Written(p) == pc[p] \in {"print", "done"}
\* The local data of fetch_health_news() is a JSON object.
GotObject(p) == response[p].kind = "parsed" /\ response[p].data.t = "object"
Count(seq, m) == Cardinality({i \in DOMAIN seq : seq[i] = m})

\* C1: a run whose NEWS_API_KEY is unset at load issues no request, returns
\* the fallback literal (2 articles, the first titled with the
\* intermittent-fasting title) and writes exactly it to the file.
C1_NoKeyFallback ==
  \A p \in Runs :
    (Decided(p) /\ ~API_KEY[p].set) =>
      /\ sent[p] = <<>>
      /\ Returned(p)
      /\ news_data[p].tip = FallbackTip
      /\ news_data[p].articles.t = "array"
      /\ Len(news_data[p].articles.items) = 2
      /\ news_data[p].articles.items[1].title =
           "benefits of intermittent fasting for mental health"
      /\ news_data[p].articles = FallbackArticles
      /\ Written(p) => file = FileOf(FallbackText(news_data[p].updated_at))
C1_Witness ==
  /\ pc[1] = "done"
  /\ ~API_KEY[1].set
  /\ file = FileOf(FallbackText(news_data[1].updated_at))

\* C2: after a parsed response with status "ok" and an articles array of
\* length n the bundle's articles are the first min(5, n) upstream articles
\* in order; with no articles member they are the empty list.
C2_FirstFive ==
  \A p \in Runs :
    (GotObject(p) /\ response[p].data.status = "ok") =>
      LET up == response[p].data.articles IN
        /\ up.t = "array" =>
             /\ pc[p] = "fetched"
             /\ news_data[p].articles.t = "array"
             /\ news_data[p].articles.items =
                  [i \in 1..Min(5, Len(up.items)) |-> up.items[i]]
        /\ up.t = "absent" =>
             /\ pc[p] = "fetched"
             /\ news_data[p].articles = JVal("array", <<>>, <<>>)
C2_Witness ==
  \E p \in Runs :
    /\ GotObject(p) /\ response[p].data.status = "ok"
    /\ response[p].data.articles.t = "array"
    /\ Len(response[p].data.articles.items) > 5
    /\ Len(news_data[p].articles.items) = 5
    /\ news_data[p].articles.items[5] = response[p].data.articles.items[5]

\* C3: when the GET or the parsing of its body raises, fetch_health_news()
\* returns the fallback literal, nothing escapes it, and the run goes on to
\* the write; a run only ever ends abnormally after the fetch has returned.
C3_ExceptionFallback ==
  \A p \in Runs :
    /\ response[p].kind \in {"get_raises", "json_raises"} =>
         /\ sent[p] # <<>>
         /\ pc[p] = "fetched"
         /\ error[p] = NoExc
         /\ IsFallbackLiteral(news_data[p])
    /\ pc[p] = "crashed" => Returned(p)
C3_Witness ==
  \E p \in Runs :
    /\ response[p].kind = "json_raises"
    /\ pc[p] = "fetched"
    /\ IsFallbackLiteral(news_data[p])
    /\ ENABLED Makedirs(p)

\* C4: when the parsed object's status is anything but the string "ok" (or
\* is missing), the bundle is the fallback literal and holds none of the
\* upstream articles.
C4_NonOkFallback ==
  \A p \in Runs :
    (GotObject(p) /\ response[p].data.status # "ok") =>
      /\ pc[p] = "fetched"
      /\ IsFallbackLiteral(news_data[p])
      /\ \A i \in DOMAIN response[p].data.articles.items :
           \A j \in DOMAIN news_data[p].articles.items :
             news_data[p].articles.items[j] # response[p].data.articles.items[i]
C4_Witness ==
  \E p \in Runs :
    /\ GotObject(p)
    /\ response[p].data.status = NoStatus
    /\ Len(response[p].data.articles.items) > 0
    /\ IsFallbackLiteral(news_data[p])

\* The live path was taken: status "ok" and a bundle built at lines 24-28.
LivePath(p) ==
  /\ GotObject(p) /\ response[p].data.status = "ok"
  /\ response[p].data.articles.t \in {"absent", "array", "string"}
  /\ pc[p] = "fetched"

\* C5 as stated: on the live path the tip is the water-intake string of the
\* fallback literal.
C5_Original ==
  \A p \in Runs : LivePath(p) => news_data[p].tip = FallbackTip

\* C5 as amended: on the live path the tip is the fixed walking string of
\* line 26, which is not the water-intake string of the fallback literal; a
\* returned bundle carries the walking string exactly on the live path.
C5_Amended ==
  /\ LiveTip # FallbackTip
  /\ \A p \in Runs :
       /\ LivePath(p) => news_data[p].tip = LiveTip
       /\ (Returned(p) /\ response[p] # NoResponse /\ ~LivePath(p)) =>
            news_data[p].tip = FallbackTip
C5_Witness ==
  \E p \in Runs :
    /\ LivePath(p)
    /\ news_data[p].tip = LiveTip
    /\ Len(news_data[p].articles.items) = 2

\* C6: on every path the returned bundle's articles are a sequence of
\* length 0..5, and so are the articles of the file a run has written.
C6_AtMostFive ==
  \A p \in Runs :
    /\ Returned(p) =>
         /\ news_data[p].articles.t \in {"array", "string"}
         /\ Len(news_data[p].articles.items) \in 0..5
         /\ Len(news_data[p].articles.chars) \in 0..5
    /\ Written(p) =>
         Cardinality({i \in DOMAIN file.content :
                        file.content[i].k \in {"article", "char"}}) \in 0..5
C6_Witness ==
  /\ pc[1] = "done"
  /\ news_data[1].tip = LiveTip
  /\ Len(news_data[1].articles.items) = 5
  /\ Cardinality({i \in DOMAIN file.content : file.content[i].k = "article"}) = 5

\* C7: the completion message is printed at most once and only once the
\* whole bundle is in the file; a failure of makedirs, open or the write
\* ends the run with that error, and a run that ended so prints nothing
\* more.
C7_Now ==
  \A p \in Runs :
    /\ Count(stdout[p], MsgDone) <= 1
    /\ Count(stdout[p], MsgDone) = 1 =>
         /\ pc[p] = "done"
         /\ error[p] = NoExc
         /\ pending[p] = <<>>
         /\ file = FileOf(Serialize(news_data[p]))
    /\ pc[p] = "crashed" =>
         /\ IsInstance(error[p], "OSError")
         /\ Count(stdout[p], MsgDone) = 0
    /\ error[p] # NoExc => pc[p] = "crashed"
C7_CrashIsFinal ==
  \A p \in Runs :
    pc[p] = "crashed" => (pc'[p] = "crashed" /\ stdout'[p] = stdout[p])
C7_CompletionMessage == [](C7_Now) /\ [][C7_CrashIsFinal]_vars
C7_Witness ==
  /\ pc[1] = "crashed"
  /\ error[1] = "OSError"
  /\ pos[1] > 0
  /\ pending[1] # <<>>
  /\ file # FileOf(Serialize(news_data[1]))

\* C8: a run whose file no other run has opened ends with the file equal
\* to its own bundle's text; with two runs there is an interleaving after
\* which the file is the text of neither bundle (the witness).
C8_IsolatedRunWritesOwnBundle ==
  \A p \in Runs :
    (Written(p) /\ \A q \in Runs \ {p} : pos[q] = NotOpened) =>
      file = FileOf(Serialize(news_data[p]))
C8_Witness ==
  /\ pc[1] = "done" /\ pc[2] = "done"
  /\ file.content # Serialize(news_data[1])
  /\ file.content # Serialize(news_data[2])
  /\ Len(file.content) = Len(Serialize(news_data[1]))
  /\ Len(Serialize(news_data[2])) < Len(Serialize(news_data[1]))
  /\ SubSeq(file.content, 1, Len(Serialize(news_data[2]))) = Serialize(news_data[2])

\* C9: status "ok" with an articles member that cannot be sliced, or a
\* top-level value that is no object: the exception is caught, the run does
\* not end, and the bundle is the fallback literal with its 2 articles.
C9_UnsliceableFallback ==
  \A p \in Runs :
    (response[p].kind = "parsed" /\
       \/ response[p].data.t # "object"
       \/ /\ response[p].data.status = "ok"
          /\ response[p].data.articles.t \in {"null", "number", "object"}) =>
      /\ pc[p] = "fetched"
      /\ error[p] = NoExc
      /\ IsFallbackLiteral(news_data[p])
      /\ Len(news_data[p].articles.items) = 2
C9_Witness ==
  \E p \in Runs :
    /\ GotObject(p) /\ response[p].data.status = "ok"
    /\ response[p].data.articles.t = "null"
    /\ IsFallbackLiteral(news_data[p])
    /\ Count(stdout[p], "Error fetching news") = 1

\* C10: a key captured as the empty string issues no request and yields the
\* fallback literal, like an unset one; a request is issued exactly when
\* the captured key is a non-empty string, with that key in its URL,
\* whatever the environment holds by then.
C10_CapturedKeyDecides ==
  \A p \in Runs :
    /\ Len(sent[p]) <= 1
    /\ Decided(p) => (sent[p] # <<>> <=> (API_KEY[p].set /\ API_KEY[p].val # ""))
    /\ sent[p] # <<>> => sent[p][1].apiKey = API_KEY[p].val
    /\ (Decided(p) /\ API_KEY[p] = [set |-> TRUE, val |-> ""]) =>
         /\ response[p] = NoResponse
         /\ IsFallbackLiteral(news_data[p])
C10_Witness ==
  \E p \in Runs :
    /\ API_KEY[p] = [set |-> TRUE, val |-> ""]
    /\ Truthy(env[p])
    /\ pc[p] = "fetched"
    /\ sent[p] = <<>>
    /\ IsFallbackLiteral(news_data[p])

====
